---- MODULE Spec2Model ----
(***************************************************************************)
(* Cart / checkout core of the store application.                          *)
(*                                                                         *)
(* The database runs in autocommit mode: every ORM statement is one atomic *)
(* step, and the statements of concurrent requests interleave.  The        *)
(* `with transaction.atomic():` of CreateOrderSerializer encloses the      *)
(* class body (it is entered and left while the class is being defined),   *)
(* so no transaction is open while validate_cart_id or save run.           *)
(***************************************************************************)
EXTENDS Integers, FiniteSets, Sequences, TLC

\* ---------------------------------------------------------------- bounds
NumReqs == 2
NumCarts == 2
NumProducts == 2
NumUsers == 3
MaxQ == 1
MaxQuantity == 2
MaxPrice == 2
MaxItemId == 2
MaxOrders == 2
MaxInventory == 2
NumCollections == 2

Reqs == 1..NumReqs
CartIds == 1..NumCarts
Products == 1..NumProducts
Users == 1..NumUsers
Prices == 1..MaxPrice
Collections == 1..NumCollections

\* ------------------------------------------------------------- constants
PAYMENT_STATUS_PENDING == "P"
PAYMENT_STATUS_COMPLETE == "C"
PAYMENT_STATUS_FAILED == "F"
PAYMENT_STATUS_CHOICES ==
    {PAYMENT_STATUS_PENDING, PAYMENT_STATUS_COMPLETE, PAYMENT_STATUS_FAILED}
NumCustomers == 2

VARIABLES collections, collection_of, inventory, carts, cartsEver,
          items, nextItemId,
          products, unit_price, orders, nextOrderId, orderItems, req,
          response, perm

vars == <<collections, collection_of, inventory, carts, cartsEver,
          items, nextItemId,
          products, unit_price, orders, nextOrderId, orderItems, req,
          response, perm>>

\* The tables; req and response are the requests and what they are told.
db == <<collections, collection_of, inventory, carts, cartsEver,
        items, nextItemId,
        products, unit_price, orders, nextOrderId, orderItems>>

\* ------------------------------------------------------------ data model
NoItem == [id |-> 0, cart |-> 0, product |-> 0, quantity |-> 0]

IdleReq == [pc |-> "idle", op |-> "none", cart |-> 0, product |-> 0,
            collection |-> 0, qty |-> 0, user |-> 0, item |-> NoItem,
            order |-> 0, snap |-> {}, outcome |-> "none"]

\* The response of a request of one statement: none has been given yet.
NoResponse == [op |-> "none", cart |-> 0, item |-> 0, status |-> "none",
               total_price |-> 0]

\* permissions.SAFE_METHODS and the other methods of HTTP requests
SAFE_METHODS == {"GET", "HEAD", "OPTIONS"}

Methods == SAFE_METHODS \cup {"POST", "PUT", "PATCH", "DELETE"}

\* request.user: None, the anonymous user, or an authenticated user with
\* its flags.
RequestUsers ==
    {u \in [none : BOOLEAN, is_authenticated : BOOLEAN, is_staff : BOOLEAN,
            is_superuser : BOOLEAN, is_active : BOOLEAN] :
        /\ u.none => ~u.is_authenticated
        /\ ~u.is_authenticated =>
              ~u.is_staff /\ ~u.is_superuser /\ ~u.is_active}

\* A permission check: the request and, once checked, what was returned.
NoCheck == [method |-> "GET",
            user |-> [none |-> TRUE, is_authenticated |-> FALSE,
                      is_staff |-> FALSE, is_superuser |-> FALSE,
                      is_active |-> FALSE],
            checked |-> FALSE, granted |-> FALSE]

\* The Customer rows: the first NumCustomers users have a profile, whose
\* primary key is not the user's.
Customers ==
    {[id |-> NumCustomers + 1 - u, user_id |-> u] : u \in 1..NumCustomers}

\* Mutant of CustomerOf: the first customer, whoever asks.
CustomerOfFirst(u) == 1

\* Customer.objects.get(user_id=...): the customer of a user, 0 when the
\* user has none (DoesNotExist).
CustomerOf(u) ==
    IF \E c \in Customers : c.user_id = u
       THEN (CHOOSE c \in Customers : c.user_id = u).id
       ELSE 0

\* CartItem.objects.filter(cart_id=c)
ItemsOfCart(c) == {i \in items : i.cart = c}

\* CartItem.objects.filter(cart_id=c, product_id=p)
ItemsOfPair(c, p) == {i \in items : i.cart = c /\ i.product = p}

\* OrderItem.objects.filter(order=o)
ItemsOfOrder(o) == {oi \in orderItems : oi.order = o}

\* Mutant of UniqueTogether: the constraint is not declared.
UniqueTogetherOff(rows, id, c, p) == TRUE

\* unique_together = [['cart', 'product']]: the storage layer accepts a row
\* only if no other row has the same (cart, product).
UniqueTogether(rows, id, c, p) ==
    \A i \in rows : (i.cart = c /\ i.product = p) => i.id = id

\* Foreign keys of a CartItem row: cart and product must exist.
CartItemForeignKeys(c, p) == c \in carts /\ p \in products

\* INSERT of a CartItem row: the storage layer's verdict ...
InsertOutcome(rows, new) ==
    IF ~UniqueTogether(rows, new.id, new.cart, new.product)
       THEN "IntegrityError:unique"
       ELSE IF ~CartItemForeignKeys(new.cart, new.product)
               THEN "IntegrityError:foreign_key"
               ELSE "ok"

\* ... and the table after it: a rejected row is not stored.
InsertCartItem(rows, new) ==
    IF InsertOutcome(rows, new) = "ok" THEN rows \cup {new} ELSE rows

\* Mutant of CascadeCart: the items of a deleted cart are left behind.
CascadeCartNone(rows, c) == rows

\* on_delete=models.CASCADE from Cart and from Product to CartItem
CascadeCart(rows, c) == {i \in rows : i.cart # c}

\* Mutant of CascadeProduct: the items of a deleted product are left behind.
CascadeProductNone(rows, p) == rows

CascadeProduct(rows, p) == {i \in rows : i.product # p}

\* The response: the request's working data is dropped, what it was and how
\* it ended stays on record until the worker takes the next request.
Finish(r, out) ==
    req' = [req EXCEPT ![r] = [IdleReq EXCEPT !.pc = "done", !.op = req[r].op,
                                  !.cart = req[r].cart,
                                  !.product = req[r].product,
                                  !.collection = req[r].collection,
                                  !.order = req[r].order,
                                  !.outcome = out]]

Goto(r, l) == req' = [req EXCEPT ![r].pc = l]

\* ------------------------------------------------------------------ Init
Init ==
    /\ collections = Collections
    /\ collection_of = [p \in Products |-> 1]
    /\ inventory = [p \in Products |-> MaxInventory]
    /\ response = NoResponse
    /\ perm = NoCheck
    /\ carts = {}
    /\ cartsEver = {}
    /\ items = {}
    /\ nextItemId = 1
    /\ products = Products
    /\ unit_price = [p \in Products |-> 1]
    /\ orders = {}
    /\ nextOrderId = 1
    /\ orderItems = {}
    /\ req = [r \in Reqs |-> IdleReq]

\* --------------------------------------------------------- cart resource
\* POST /carts: a new cart under a fresh uuid.
CreateCart(c) ==
    /\ c \notin cartsEver
    /\ carts' = carts \cup {c}
    /\ cartsEver' = cartsEver \cup {c}
    /\ UNCHANGED <<perm, inventory, collections, collection_of, response,
                   items, nextItemId, products, unit_price, orders,
                   nextOrderId, orderItems, req>>

\* DELETE /carts/{id}: the cart and, by cascade, its items.
DeleteCart(c) ==
    /\ c \in carts
    /\ carts' = carts \ {c}
    /\ items' = CascadeCart(items, c)
    /\ UNCHANGED <<perm, inventory, collections, collection_of, response,
                   cartsEver, nextItemId, products, unit_price, orders,
                   nextOrderId, orderItems, req>>

\* Mutant of SetPrice: the OrderItems of the product follow its price.
SetPriceRetroactive(p, v) ==
    /\ p \in products
    /\ unit_price[p] # v
    /\ unit_price' = [unit_price EXCEPT ![p] = v]
    /\ orderItems' = {[oi EXCEPT !.unit_price =
                          IF oi.product = p THEN v ELSE @] : oi \in orderItems}
    /\ UNCHANGED <<perm, inventory, collections, collection_of, response,
                   carts, cartsEver, items, nextItemId, products, orders,
                   nextOrderId, req>>

\* PUT/PATCH /products/{id}: the stock on hand is set.
SetInventory(p, n) ==
    /\ p \in products
    /\ inventory[p] # n
    /\ inventory' = [inventory EXCEPT ![p] = n]
    /\ UNCHANGED <<perm, collections, collection_of, response, carts,
                   cartsEver,
                   items, nextItemId, products, unit_price, orders,
                   nextOrderId, orderItems, req>>

\* PUT/PATCH /products/{id}: a catalog price change.
SetPrice(p, v) ==
    /\ p \in products
    /\ unit_price[p] # v
    /\ unit_price' = [unit_price EXCEPT ![p] = v]
    /\ UNCHANGED <<perm, inventory, collections, collection_of, response,
                   carts, cartsEver, items, nextItemId, products, orders,
                   nextOrderId, orderItems, req>>

\* ------------------------------------------------- AddCartItemSerializer
Free(r) == req[r].pc \in {"idle", "done"}

\* Mutant of AddStart: is_valid() without validate_product_id.
AddStartNoValidate(r, c, p, q) ==
    /\ Free(r)
    /\ req' = [req EXCEPT ![r] = [IdleReq EXCEPT !.pc = "add_get",
                  !.op = "add", !.cart = c, !.product = p, !.qty = q]]
    /\ UNCHANGED <<perm, db, response>>

\* POST /carts/{c}/items: is_valid() runs validate_product_id, then save().
\* The quantity field of the model is a PositiveSmallIntegerField: 0 passes.
AddStart(r, c, p, q) ==
    /\ Free(r)
    /\ LET new == [IdleReq EXCEPT !.op = "add", !.cart = c, !.product = p,
                                  !.qty = q] IN
         IF p \in products
            THEN req' = [req EXCEPT ![r] = [new EXCEPT !.pc = "add_get"]]
            ELSE req' = [req EXCEPT ![r] = [IdleReq EXCEPT !.pc = "done",
                                     !.op = "add", !.cart = c,
                                     !.product = p,
                                     !.outcome = "ValidationError"]]
    /\ UNCHANGED <<perm, db, response>>

\* save: CartItem.objects.get(cart_id=..., product_id=...)
AddGet(r) ==
    /\ req[r].pc = "add_get"
    /\ LET found == ItemsOfPair(req[r].cart, req[r].product) IN
         IF found = {}
            THEN Goto(r, "add_create")
            ELSE IF Cardinality(found) = 1
                    THEN \E i \in found :
                           req' = [req EXCEPT ![r].pc = "add_save",
                                              ![r].item = i]
                    ELSE Finish(r, "MultipleObjectsReturned")
    /\ UNCHANGED <<perm, db, response>>

\* Mutant of AddSave: the quantity is assigned, not added.
AddSaveOverwrite(r) ==
    /\ req[r].pc = "add_save"
    /\ LET new == [req[r].item EXCEPT !.quantity = req[r].qty] IN
         IF \E i \in items : i.id = new.id
            THEN /\ items' = {i \in items : i.id # new.id} \cup {new}
                 /\ Finish(r, "ok")
            ELSE /\ items' = InsertCartItem(items, new)
                 /\ Finish(r, InsertOutcome(items, new))
    /\ UNCHANGED <<perm, inventory, collections, collection_of, response,
                   carts, cartsEver, nextItemId, products, unit_price,
                   orders, nextOrderId, orderItems>>

\* Mutant of AddSave: the quantity is added to every item of the cart.
AddSaveWholeCart(r) ==
    /\ req[r].pc = "add_save"
    /\ items' = {[i EXCEPT !.quantity =
                     IF i.cart = req[r].cart THEN @ + req[r].qty ELSE @] :
                     i \in items}
    /\ Finish(r, "ok")
    /\ UNCHANGED <<perm, inventory, collections, collection_of, response,
                   carts,
                   cartsEver,
                   nextItemId, products, unit_price, orders, nextOrderId,
                   orderItems>>

\* save: cart_item.quantity += quantity; cart_item.save()
\* Model.save() updates the row with the instance's primary key and inserts
\* the instance when no such row is left.
AddSave(r) ==
    /\ req[r].pc = "add_save"
    /\ req[r].item.quantity + req[r].qty <= MaxQuantity
    /\ LET new == [req[r].item EXCEPT !.quantity = @ + req[r].qty] IN
         IF \E i \in items : i.id = new.id
            THEN /\ items' = {i \in items : i.id # new.id} \cup {new}
                 /\ Finish(r, "ok")
            ELSE /\ items' = InsertCartItem(items, new)
                 /\ Finish(r, InsertOutcome(items, new))
    /\ UNCHANGED <<perm, inventory, collections, collection_of, response,
                   carts, cartsEver, nextItemId, products, unit_price,
                   orders, nextOrderId, orderItems>>

\* save: CartItem.objects.create(**validated_data, cart_id=cart_id)
AddCreate(r) ==
    /\ req[r].pc = "add_create"
    /\ nextItemId <= MaxItemId
    /\ LET new == [id |-> nextItemId, cart |-> req[r].cart,
                   product |-> req[r].product, quantity |-> req[r].qty] IN
         /\ items' = InsertCartItem(items, new)
         /\ nextItemId' = IF InsertOutcome(items, new) = "ok"
                             THEN nextItemId + 1 ELSE nextItemId
         /\ Finish(r, InsertOutcome(items, new))
    /\ UNCHANGED <<perm, inventory, collections, collection_of, response,
                   carts, cartsEver, products, unit_price, orders,
                   nextOrderId, orderItems>>

\* ----------------------------------------------------- cart item resource
\* Mutant of UpdateCartItemFields: the product is writable as well, and the
\* request names the next one.
UpdateCartItemFieldsAndProduct(i, q) ==
    [i EXCEPT !.quantity = q, !.product = (i.product % NumProducts) + 1]

\* UpdateCartItemSerializer: fields = ['quantity']
UpdateCartItemFields(i, q) == [i EXCEPT !.quantity = q]

\* PATCH /carts/{c}/items/{id}: only the quantity of the addressed item.
UpdateItem(c, id, q) ==
    /\ \E i \in items :
         /\ i.id = id
         /\ i.cart = c
         /\ i.quantity # q
         /\ items' = (items \ {i}) \cup {UpdateCartItemFields(i, q)}
    /\ UNCHANGED <<perm, inventory, collections, collection_of, response,
                   carts, cartsEver, nextItemId, products, unit_price,
                   orders, nextOrderId, orderItems, req>>

\* DELETE /carts/{c}/items/{id}
DeleteItem(c, id) ==
    /\ \E i \in items :
         /\ i.id = id
         /\ i.cart = c
         /\ items' = items \ {i}
    /\ UNCHANGED <<perm, inventory, collections, collection_of, response,
                   carts, cartsEver, nextItemId, products, unit_price,
                   orders, nextOrderId, orderItems, req>>

\* The same two requests with their responses: the item is looked up among
\* the items of the cart in the URL.
PatchItem(c, id, q) ==
    /\ LET found == {i \in items : i.id = id /\ i.cart = c}
           answer == [NoResponse EXCEPT !.op = "update_item", !.cart = c,
                                        !.item = id] IN
         IF found = {}
            THEN /\ items' = items
                 /\ response' = [answer EXCEPT !.status = "NotFound"]
            ELSE /\ items' = (items \ found) \cup
                              {UpdateCartItemFields(i, q) : i \in found}
                 /\ response' = [answer EXCEPT !.status = "ok"]
    /\ UNCHANGED <<perm, inventory, collections, collection_of, carts,
                   cartsEver,
                   nextItemId,
                   products, unit_price, orders, nextOrderId, orderItems,
                   req>>

DestroyItem(c, id) ==
    /\ LET found == {i \in items : i.id = id /\ i.cart = c}
           answer == [NoResponse EXCEPT !.op = "delete_item", !.cart = c,
                                        !.item = id] IN
         IF found = {}
            THEN /\ items' = items
                 /\ response' = [answer EXCEPT !.status = "NotFound"]
            ELSE /\ items' = items \ found
                 /\ response' = [answer EXCEPT !.status = "ok"]
    /\ UNCHANGED <<perm, inventory, collections, collection_of, carts,
                   cartsEver,
                   nextItemId,
                   products, unit_price, orders, nextOrderId, orderItems,
                   req>>

\* ---------------------------------------------------------- CartSerializer
\* CartItem.cart: related_name, the name of the reverse accessor on Cart.
CartItemRelatedName == "ietems"

\* sum([item.quantity * item.product.unit_price for item in ...])
RECURSIVE SumOfLines(_)
SumOfLines(rows) ==
    IF rows = {}
       THEN 0
       ELSE LET i == CHOOSE i \in rows : TRUE IN
              i.quantity * unit_price[i.product] + SumOfLines(rows \ {i})

\* GET /carts/{c}: get_object() on Cart.objects.prefetch_related(
\* 'items__product'), then CartSerializer with get_total_price over
\* cart.items.all().  Both name the reverse accessor `items`.
RetrieveCart(c) ==
    /\ LET answer == [NoResponse EXCEPT !.op = "retrieve_cart", !.cart = c] IN
         IF c \notin carts
            THEN response' = [answer EXCEPT !.status = "NotFound"]
            ELSE IF CartItemRelatedName = "items"
                    THEN response' =
                           [answer EXCEPT !.status = "ok",
                               !.total_price = SumOfLines(ItemsOfCart(c))]
                    ELSE response' =
                           [answer EXCEPT !.status = "AttributeError"]
    /\ UNCHANGED <<perm, db, req>>

\* ------------------------------------------------- CreateOrderSerializer
\* Mutant of CheckoutStart: validate_cart_id without the existence check.
CheckoutStartNoExists(r, c, u) ==
    /\ Free(r)
    /\ nextOrderId <= MaxOrders
    /\ req' = [req EXCEPT ![r] = [IdleReq EXCEPT !.pc = "co_count",
                  !.op = "checkout", !.cart = c, !.user = u]]
    /\ UNCHANGED <<perm, db, response>>

\* POST /orders: is_valid() runs validate_cart_id, then save().
\* validate_cart_id, first query: Cart.objects.filter(pk=cart_id).exists()
CheckoutStart(r, c, u) ==
    /\ Free(r)
    /\ nextOrderId <= MaxOrders
    /\ LET new == [IdleReq EXCEPT !.op = "checkout", !.cart = c,
                                  !.user = u] IN
         IF c \in carts
            THEN req' = [req EXCEPT ![r] = [new EXCEPT !.pc = "co_count"]]
            ELSE req' = [req EXCEPT ![r] = [IdleReq EXCEPT !.pc = "done",
                                     !.op = "checkout", !.cart = c,
                                     !.outcome = "ValidationError:no_cart"]]
    /\ UNCHANGED <<perm, db, response>>

\* Mutant of CheckoutCount: validate_cart_id without the emptiness check.
CheckoutCountNoEmpty(r) ==
    /\ req[r].pc = "co_count"
    /\ Goto(r, "co_order")
    /\ UNCHANGED <<perm, db, response>>

\* validate_cart_id, second query: CartItem.objects.filter(...).count() == 0
CheckoutCount(r) ==
    /\ req[r].pc = "co_count"
    /\ IF Cardinality(ItemsOfCart(req[r].cart)) = 0
          THEN Finish(r, "ValidationError:empty")
          ELSE Goto(r, "co_order")
    /\ UNCHANGED <<perm, db, response>>

\* save: customer = Customer.objects.get(user_id=...);
\*       order = Order.objects.create(customer=customer)
\* placed_at (auto_now_add) is the time of the insert, on a clock that ticks
\* with every order placed.
\* Customers do not change here, so the lookup and the insert are one step.
\* The insert is committed at once: no transaction is open.
CheckoutCreateOrder(r) ==
    /\ req[r].pc = "co_order"
    /\ IF CustomerOf(req[r].user) = 0
          THEN /\ Finish(r, "DoesNotExist")
               /\ UNCHANGED <<orders, nextOrderId>>
          ELSE /\ orders' = orders \cup
                     {[id |-> nextOrderId,
                       customer |-> CustomerOf(req[r].user),
                       placed_at |-> nextOrderId,
                       payment_status |-> PAYMENT_STATUS_PENDING]}
               /\ nextOrderId' = nextOrderId + 1
               /\ req' = [req EXCEPT ![r].pc = "co_read",
                                     ![r].order = nextOrderId]
    /\ UNCHANGED <<perm, inventory, collections, collection_of, response,
                   carts, cartsEver, items, nextItemId, products, unit_price,
                   orderItems>>

\* Mutant of OrderItemOf: the line total is stored as the unit price.
OrderItemOfLineTotal(o, i) ==
    [order |-> o, product |-> i.product, quantity |-> i.quantity,
     unit_price |-> i.quantity * unit_price[i.product]]

\* save: the OrderItem built from one CartItem joined with its product.
OrderItemOf(o, i) ==
    [order |-> o, product |-> i.product, quantity |-> i.quantity,
     unit_price |-> unit_price[i.product]]

\* save: cart_items = CartItem.objects.select_related('product').filter(...)
\*       order_items = [OrderItem(...) for item in cart_items]
CheckoutRead(r) ==
    /\ req[r].pc = "co_read"
    /\ req' = [req EXCEPT ![r].pc = "co_bulk",
                  ![r].snap = {OrderItemOf(req[r].order, i) :
                                 i \in ItemsOfCart(req[r].cart)}]
    /\ UNCHANGED <<perm, db, response>>

\* Mutant of CheckoutBulk: the stock of every ordered product is reduced
\* by the quantity ordered.
CheckoutBulkDecrement(r) ==
    /\ req[r].pc = "co_bulk"
    /\ orderItems' = orderItems \cup req[r].snap
    /\ inventory' = [p \in Products |->
                       IF \E oi \in req[r].snap : oi.product = p
                          THEN inventory[p] - 1 ELSE inventory[p]]
    /\ Goto(r, "co_delete")
    /\ UNCHANGED <<perm, collections, collection_of, response, carts,
                   cartsEver,
                   items, nextItemId, products, unit_price, orders,
                   nextOrderId>>

\* save: OrderItem.objects.bulk_create(order_items)
\* The insert fails as a whole when a row references a product that is gone.
CheckoutBulk(r) ==
    /\ req[r].pc = "co_bulk"
    /\ IF \A oi \in req[r].snap : oi.product \in products
          THEN /\ orderItems' = orderItems \cup req[r].snap
               /\ Goto(r, "co_delete")
          ELSE /\ orderItems' = orderItems
               /\ Finish(r, "IntegrityError:foreign_key")
    /\ UNCHANGED <<perm, inventory, collections, collection_of, response,
                   carts, cartsEver, items, nextItemId, products, unit_price,
                   orders, nextOrderId>>

\* save: Cart.objects.filter(pk=cart_id).delete(); return order
CheckoutDelete(r) ==
    /\ req[r].pc = "co_delete"
    /\ carts' = carts \ {req[r].cart}
    /\ items' = CascadeCart(items, req[r].cart)
    /\ Finish(r, "ok")
    /\ UNCHANGED <<perm, inventory, collections, collection_of, response,
                   cartsEver, nextItemId, products, unit_price, orders,
                   nextOrderId, orderItems>>

\* ------------------------------------------------- UpdateOrderSerializer
\* Mutant of UpdateOrderFields: the customer is writable as well, and the
\* request names the next one.
UpdateOrderFieldsAndCustomer(o, s) ==
    [o EXCEPT !.payment_status = s,
              !.customer = (o.customer % NumCustomers) + 1]

\* UpdateOrderSerializer: fields = ['payment_status']
UpdateOrderFields(o, s) == [o EXCEPT !.payment_status = s]

\* PATCH /orders/{id}: ModelSerializer.update sets the validated fields on
\* the order and saves it; payment_status is one of the declared choices.
UpdateOrder(id, s) ==
    /\ s \in PAYMENT_STATUS_CHOICES
    /\ \E o \in orders :
         /\ o.id = id
         /\ o.payment_status # s
         /\ orders' = (orders \ {o}) \cup {UpdateOrderFields(o, s)}
    /\ UNCHANGED <<perm, inventory, collections, collection_of, response,
                   carts,
                   cartsEver, items, nextItemId, products, unit_price,
                   nextOrderId, orderItems, req>>

\* -------------------------------------------------- ProductViewSet.destroy
\* Mutant of DeleteProductStart: destroy without the order item count.
DeleteProductStartNoCount(r, p) ==
    /\ Free(r)
    /\ req' = [req EXCEPT ![r] = [IdleReq EXCEPT !.pc = "dp_destroy",
                  !.op = "delete_product", !.product = p]]
    /\ UNCHANGED <<perm, db, response>>

\* OrderItem.objects.filter(product_id=pk).count() > 0
DeleteProductStart(r, p) ==
    /\ Free(r)
    /\ LET new == [IdleReq EXCEPT !.op = "delete_product", !.product = p] IN
         IF \E oi \in orderItems : oi.product = p
            THEN req' = [req EXCEPT ![r] = [IdleReq EXCEPT !.pc = "done",
                                     !.op = "delete_product",
                                     !.product = p,
                                     !.outcome = "MethodNotAllowed"]]
            ELSE req' = [req EXCEPT ![r] = [new EXCEPT !.pc = "dp_destroy"]]
    /\ UNCHANGED <<perm, db, response>>

\* super().destroy(): get_object(), then instance.delete(); the product's
\* cart items go with it, an order item protects it.
DeleteProductDestroy(r) ==
    /\ req[r].pc = "dp_destroy"
    /\ LET p == req[r].product IN
         IF p \notin products
            THEN /\ Finish(r, "NotFound")
                 /\ UNCHANGED <<products, items>>
            ELSE IF \E oi \in orderItems : oi.product = p
                    THEN /\ Finish(r, "ProtectedError")
                         /\ UNCHANGED <<products, items>>
                    ELSE /\ products' = products \ {p}
                         /\ items' = CascadeProduct(items, p)
                         /\ Finish(r, "ok")
    /\ UNCHANGED <<perm, inventory, collections, collection_of, response,
                   carts, cartsEver, nextItemId, unit_price, orders,
                   nextOrderId, orderItems>>

\* ----------------------------------------------- CollectionViewSet.destroy
\* PUT/PATCH /products/{id}: the product moves to another collection; the
\* related field of ProductSerializer takes the key of an existing one only.
SetCollection(p, k) ==
    /\ p \in products
    /\ k \in collections
    /\ collection_of[p] # k
    /\ collection_of' = [collection_of EXCEPT ![p] = k]
    /\ UNCHANGED <<perm, inventory, collections, response, carts, cartsEver,
                   items,
                   nextItemId, products, unit_price, orders, nextOrderId,
                   orderItems, req>>

\* collection.product_set
ProductSet(k) == {p \in products : collection_of[p] = k}

\* collection = get_object_or_404(Collection, pk=kwargs['pk'])
DeleteCollectionStart(r, k) ==
    /\ Free(r)
    /\ LET new == [IdleReq EXCEPT !.op = "delete_collection",
                                  !.collection = k] IN
         IF k \in collections
            THEN req' = [req EXCEPT ![r] = [new EXCEPT !.pc = "dc_count"]]
            ELSE req' = [req EXCEPT ![r] = [new EXCEPT !.pc = "done",
                                              !.outcome = "NotFound"]]
    /\ UNCHANGED <<perm, db, response>>

\* Mutant of DeleteCollectionCount: destroy without the product count.
DeleteCollectionCountNoCount(r) ==
    /\ req[r].pc = "dc_count"
    /\ Goto(r, "dc_destroy")
    /\ UNCHANGED <<perm, db, response>>

\* collection.product_set.count() > 0
DeleteCollectionCount(r) ==
    /\ req[r].pc = "dc_count"
    /\ IF Cardinality(ProductSet(req[r].collection)) > 0
          THEN Finish(r, "MethodNotAllowed")
          ELSE Goto(r, "dc_destroy")
    /\ UNCHANGED <<perm, db, response>>

\* super().destroy(): get_object(), then instance.delete(); a product of
\* the collection protects it (Product.collection, on_delete=PROTECT).
DeleteCollectionDestroy(r) ==
    /\ req[r].pc = "dc_destroy"
    /\ LET k == req[r].collection IN
         IF k \notin collections
            THEN /\ Finish(r, "NotFound")
                 /\ UNCHANGED collections
            ELSE IF ProductSet(k) # {}
                    THEN /\ Finish(r, "ProtectedError")
                         /\ UNCHANGED collections
                    ELSE /\ collections' = collections \ {k}
                         /\ Finish(r, "ok")
    /\ UNCHANGED <<perm, inventory, collection_of, response, carts, cartsEver,
                   items,
                   nextItemId, products, unit_price, orders, nextOrderId,
                   orderItems>>

\* ------------------------------------------------------ IsAdminOrReadOnly
\* Mutant of has_permission: any authenticated user may write.
has_permission_authenticated(method, user) ==
    IF method \in SAFE_METHODS
       THEN TRUE
       ELSE ~user.none /\ user.is_authenticated

\* if request.method in permissions.SAFE_METHODS: return True
\* return bool(request.user and request.user.is_staff)
\* A user object is true, None is false.
has_permission(method, user) ==
    IF method \in SAFE_METHODS
       THEN TRUE
       ELSE ~user.none /\ user.is_staff

\* A request reaches a view guarded by IsAdminOrReadOnly.
PermissionRequest(m, u) ==
    /\ perm' = [method |-> m, user |-> u, checked |-> FALSE,
                granted |-> FALSE]
    /\ UNCHANGED <<db, req, response>>

\* The view asks the permission class.
CheckPermission ==
    /\ ~perm.checked
    /\ perm' = [perm EXCEPT !.checked = TRUE,
                            !.granted = has_permission(perm.method,
                                                       perm.user)]
    /\ UNCHANGED <<db, req, response>>

\* ------------------------------------------------------------ scheduling
Quiet == \A r \in Reqs : Free(r)

\* Requests of one statement.
CartNext ==
    \/ \E c \in CartIds : CreateCart(c)
    \/ \E c \in CartIds : DeleteCart(c)
    \/ \E c \in CartIds, id \in 1..MaxItemId, q \in 0..MaxQ :
          UpdateItem(c, id, q)
    \/ \E c \in CartIds, id \in 1..MaxItemId : DeleteItem(c, id)

CatalogNext == \E p \in Products, v \in Prices : SetPrice(p, v)

\* A request of several statements arrives at a worker of W: its first
\* statement.
ArriveNext(W) ==
    \/ \E r \in W, c \in CartIds, p \in Products, q \in 0..MaxQ :
          AddStart(r, c, p, q)
    \/ \E r \in W, c \in CartIds, u \in Users : CheckoutStart(r, c, u)
    \/ \E r \in W, p \in Products : DeleteProductStart(r, p)

\* The later statements of the requests in flight.
StepNext ==
    \/ \E r \in Reqs : AddGet(r)
    \/ \E r \in Reqs : AddSave(r)
    \/ \E r \in Reqs : AddCreate(r)
    \/ \E r \in Reqs : CheckoutCount(r)
    \/ \E r \in Reqs : CheckoutCreateOrder(r)
    \/ \E r \in Reqs : CheckoutRead(r)
    \/ \E r \in Reqs : CheckoutBulk(r)
    \/ \E r \in Reqs : CheckoutDelete(r)
    \/ \E r \in Reqs : DeleteProductDestroy(r)

\* The collection requests: a product changes collection, a collection is
\* deleted.
CollectionNext ==
    \/ \E p \in Products, k \in Collections : SetCollection(p, k)
    \/ \E r \in Reqs, k \in Collections : DeleteCollectionStart(r, k)
    \/ \E r \in Reqs : DeleteCollectionCount(r)
    \/ \E r \in Reqs : DeleteCollectionDestroy(r)

\* The other requests of one statement, and the permission checks.
OtherNext ==
    \/ \E c \in CartIds : RetrieveCart(c)
    \/ \E c \in CartIds, id \in 1..MaxItemId, q \in 0..MaxQ :
          PatchItem(c, id, q)
    \/ \E c \in CartIds, id \in 1..MaxItemId : DestroyItem(c, id)
    \/ \E p \in Products, n \in 0..MaxInventory : SetInventory(p, n)
    \/ \E id \in 1..MaxOrders, s \in PAYMENT_STATUS_CHOICES :
          UpdateOrder(id, s)
    \/ \E m \in Methods, u \in RequestUsers : PermissionRequest(m, u)
    \/ CheckPermission

\* Requests are served concurrently; their statements interleave.
Next ==
    \/ CartNext
    \/ CatalogNext
    \/ CollectionNext
    \/ OtherNext
    \/ ArriveNext(Reqs)
    \/ StepNext

Spec == Init /\ [][Next]_vars

\* The same at fixed catalog prices, from a database in which all cart ids
\* but one belong to carts that are gone already.
InitOneCart ==
    /\ collections = Collections
    /\ collection_of = [p \in Products |-> 1]
    /\ inventory = [p \in Products |-> MaxInventory]
    /\ response = NoResponse
    /\ perm = NoCheck
    /\ carts = {}
    /\ cartsEver = CartIds \ {1}
    /\ items = {}
    /\ nextItemId = 1
    /\ products = Products
    /\ unit_price = [p \in Products |-> 1]
    /\ orders = {}
    /\ nextOrderId = 1
    /\ orderItems = {}
    /\ req = [r \in Reqs |-> IdleReq]

NextConc == CartNext \/ ArriveNext(Reqs) \/ StepNext

SpecConc == InitOneCart /\ [][NextConc]_vars

\* One worker, one request at a time: a request arrives only when none is
\* in flight.
NextSeq == (Quiet /\ (CartNext \/ CatalogNext \/ ArriveNext({1}))) \/ StepNext

SpecSeq == Init /\ [][NextSeq]_vars

\* The catalog alone, served concurrently: prices, collections, product and
\* collection deletes.
NextCatalog ==
    \/ CatalogNext
    \/ \E p \in Products, n \in 0..MaxInventory : SetInventory(p, n)
    \/ CollectionNext
    \/ \E r \in Reqs, p \in Products : DeleteProductStart(r, p)
    \/ \E r \in Reqs : DeleteProductDestroy(r)

SpecCatalog == Init /\ [][NextCatalog]_vars

\* The cart and its items, one request at a time, every one-statement
\* request with its response.
NextItems ==
    \/ /\ Quiet
       /\ \/ \E c \in CartIds : CreateCart(c)
          \/ \E c \in CartIds : DeleteCart(c)
          \/ \E c \in CartIds : RetrieveCart(c)
          \/ \E c \in CartIds, id \in 1..MaxItemId, q \in 0..MaxQ :
                PatchItem(c, id, q)
          \/ \E c \in CartIds, id \in 1..MaxItemId : DestroyItem(c, id)
          \/ \E c \in CartIds, p \in Products, q \in 0..MaxQ :
                AddStart(1, c, p, q)
          \/ CatalogNext
    \/ AddGet(1)
    \/ AddSave(1)
    \/ AddCreate(1)

SpecItems == Init /\ [][NextItems]_vars

\* The later statements of adds and checkouts.
StepNextCartOrder ==
    \/ \E r \in Reqs : AddGet(r)
    \/ \E r \in Reqs : AddSave(r)
    \/ \E r \in Reqs : AddCreate(r)
    \/ \E r \in Reqs : CheckoutCount(r)
    \/ \E r \in Reqs : CheckoutCreateOrder(r)
    \/ \E r \in Reqs : CheckoutRead(r)
    \/ \E r \in Reqs : CheckoutBulk(r)
    \/ \E r \in Reqs : CheckoutDelete(r)

\* Adds and checkouts alone, served concurrently, on the one cart.
NextCartOrder ==
    \/ \E c \in CartIds : CreateCart(c)
    \/ \E r \in Reqs, c \in CartIds, p \in Products, q \in 0..MaxQ :
          AddStart(r, c, p, q)
    \/ \E r \in Reqs, c \in CartIds, u \in Users : CheckoutStart(r, c, u)
    \/ StepNextCartOrder

SpecCartOrder == InitOneCart /\ [][NextCartOrder]_vars

\* Carts, adds, checkouts and order updates, one request at a time.
NextOrders ==
    \/ /\ Quiet
       /\ \/ \E c \in CartIds : CreateCart(c)
          \/ \E c \in CartIds, p \in Products, q \in 0..MaxQ :
                AddStart(1, c, p, q)
          \/ \E c \in CartIds, u \in Users : CheckoutStart(1, c, u)
          \/ \E id \in 1..MaxOrders, s \in PAYMENT_STATUS_CHOICES :
                UpdateOrder(id, s)
    \/ AddGet(1)
    \/ AddSave(1)
    \/ AddCreate(1)
    \/ CheckoutCount(1)
    \/ CheckoutCreateOrder(1)
    \/ CheckoutRead(1)
    \/ CheckoutBulk(1)
    \/ CheckoutDelete(1)

SpecOrders == Init /\ [][NextOrders]_vars

\* The permission checks alone.
NextPermission ==
    \/ \E m \in Methods, u \in RequestUsers : PermissionRequest(m, u)
    \/ CheckPermission

SpecPermission == Init /\ [][NextPermission]_vars

\* ---------------------------------------------------------------- claims
Done(r, op) == req[r].pc = "done" /\ req[r].op = op

InFlight(r, op) == ~Free(r) /\ req[r].op = op

\* C1: a checkout that fails after it has started leaves no Order and no
\* OrderItem of its own behind.
C1_CheckoutAllOrNothing ==
    \A r \in Reqs :
        (Done(r, "checkout") /\ req[r].outcome # "ok") =>
            /\ \A o \in orders : o.id # req[r].order
            /\ ItemsOfOrder(req[r].order) = {}

\* C2: every Order whose checkout is over has at least one OrderItem, and
\* every checkout that removed its cart has its Order.
C2_NoPartialCheckout ==
    /\ \A o \in orders :
         \/ \E r \in Reqs : InFlight(r, "checkout") /\ req[r].order = o.id
         \/ ItemsOfOrder(o.id) # {}
    /\ \A r \in Reqs :
         (Done(r, "checkout") /\ req[r].outcome = "ok") =>
             \E o \in orders : o.id = req[r].order

\* C3: of two checkout calls on the same cart id at most one succeeds.
C3_OneCheckoutWins ==
    \A r1, r2 \in Reqs :
        (/\ r1 # r2
         /\ Done(r1, "checkout") /\ Done(r2, "checkout")
         /\ req[r1].cart = req[r2].cart
         /\ req[r1].outcome = "ok") => req[r2].outcome # "ok"

\* C4: a checkout creates one Order and no more; when it succeeds, the
\* Order holds exactly one OrderItem per CartItem of the cart, with the same
\* product, the same quantity and the product's current unit_price, and
\* the cart and its CartItems are gone.
C4_CheckoutSnapshot ==
    [][\A r \in Reqs :
          /\ InFlight(r, "checkout") =>
                /\ Cardinality(orders') <= Cardinality(orders) + 1
                /\ (req[r].order # 0 /\ req'[r].op = "checkout") =>
                       (orders' = orders /\ req'[r].order = req[r].order)
          /\ (req[r].pc = "co_delete" /\ req'[r].pc = "done") =>
                LET c == req[r].cart
                    o == req[r].order
                    cartItems == {i \in items : i.cart = c}
                    orderItemsAfter == {oi \in orderItems' : oi.order = o}
                IN  /\ req'[r].outcome = "ok"
                    /\ Cardinality({x \in orders' : x.id = o}) = 1
                    /\ orderItemsAfter =
                         {[order |-> o, product |-> i.product,
                           quantity |-> i.quantity,
                           unit_price |-> unit_price[i.product]] :
                            i \in cartItems}
                    /\ Cardinality(orderItemsAfter) = Cardinality(cartItems)
                    /\ c \notin carts'
                    /\ \A i \in items' : i.cart # c]_vars

C4_Witness ==
    \E r \in Reqs :
        /\ Done(r, "checkout") /\ req[r].outcome = "ok"
        /\ req[r].cart \notin carts
        /\ Cardinality(ItemsOfOrder(req[r].order)) = 2
        /\ \E oi \in ItemsOfOrder(req[r].order) : oi.quantity = 2

\* C5: at most one CartItem for each (cart, product) pair.
C5_UniqueCartItem ==
    \A i, j \in items :
        (i.cart = j.cart /\ i.product = j.product) => i = j

C5_Witness ==
    \E r1, r2 \in Reqs :
        /\ Done(r1, "add") /\ Done(r2, "add")
        /\ req[r1].cart = req[r2].cart /\ req[r1].product = req[r2].product
        /\ req[r1].outcome = "ok"
        /\ req[r2].outcome = "IntegrityError:unique"
        /\ Cardinality(ItemsOfPair(req[r1].cart, req[r1].product)) = 1

\* C6: an add to an existing cart and product ends with exactly one CartItem
\* for the pair: with the given quantity when the pair had none, with the
\* former quantity plus the given one when it had one.
C6_AddAccumulates ==
    [][\A r \in Reqs :
          (/\ req[r].pc \in {"add_save", "add_create"}
           /\ req'[r].pc = "done"
           /\ req[r].cart \in carts
           /\ req[r].product \in products) =>
              LET before == {i \in items : i.cart = req[r].cart
                                           /\ i.product = req[r].product}
                  after == {i \in items' : i.cart = req[r].cart
                                           /\ i.product = req[r].product}
              IN  /\ req'[r].outcome = "ok"
                  /\ Cardinality(before) <= 1
                  /\ Cardinality(after) = 1
                  /\ \A j \in after :
                       /\ before = {} => j.quantity = req[r].qty
                       /\ \A i \in before :
                            j.quantity = i.quantity + req[r].qty]_vars

C6_Witness ==
    \E r \in Reqs :
        /\ Done(r, "add") /\ req[r].outcome = "ok"
        /\ \E i \in ItemsOfPair(req[r].cart, req[r].product) :
             i.quantity > MaxQ

\* C7: an add that loses the uniqueness check does not end as a storage
\* error.
C7_AddRaceHandled ==
    \A r \in Reqs :
        Done(r, "add") => req[r].outcome # "IntegrityError:unique"

\* C8: a checkout that finds its cart existing and empty ends with the
\* 'cart is empty' ValidationError, having written nothing: the stored
\* state, the cart included, is as before.
C8_EmptyCartRejected ==
    [][\A r \in Reqs :
          /\ (req[r].pc = "co_count" /\ req'[r] # req[r]
              /\ ItemsOfCart(req[r].cart) = {}) =>
                 /\ req'[r].pc = "done"
                 /\ req'[r].outcome = "ValidationError:empty"
                 /\ req[r].order = 0
                 /\ db' = db
          /\ (Free(r) /\ req'[r] # req[r] /\ req'[r].op = "checkout") =>
                 db' = db]_vars

C8_Witness ==
    \E r \in Reqs :
        /\ Done(r, "checkout")
        /\ req[r].outcome = "ValidationError:empty"
        /\ req[r].cart \in carts
        /\ ItemsOfCart(req[r].cart) = {}
        /\ orders = {}

\* C9: a checkout with a cart id that references no cart ends with the
\* 'no cart' ValidationError and leaves the stored state as it was.
C9_NoCartRejected ==
    [][\A r \in Reqs :
          (/\ Free(r) /\ req'[r] # req[r]
           /\ req'[r].op = "checkout"
           /\ req'[r].cart \notin carts) =>
              /\ req'[r].pc = "done"
              /\ req'[r].outcome = "ValidationError:no_cart"
              /\ db' = db]_vars

C9_Witness ==
    \E r \in Reqs :
        /\ Done(r, "checkout")
        /\ req[r].outcome = "ValidationError:no_cart"
        /\ req[r].cart \notin carts
        /\ req[r].cart \in cartsEver

\* C10: a change of a product's unit_price leaves every stored OrderItem,
\* its unit_price included, as it was.
C10_PriceFrozen ==
    [][unit_price' # unit_price =>
          /\ \A oi \in orderItems : oi \in orderItems'
          /\ \A oi \in orderItems' : oi \in orderItems]_vars

C10_Witness ==
    \E oi \in orderItems :
        /\ oi.product \in products
        /\ oi.unit_price # unit_price[oi.product]

\* C11: a delete of a product that an OrderItem references is answered with
\* MethodNotAllowed and changes nothing in the database; while an OrderItem
\* references a product, no step removes the product.
C11_ReferencedProductKept ==
    [][/\ \A r \in Reqs :
            (/\ Free(r)
             /\ req'[r] # req[r]
             /\ req'[r].op = "delete_product"
             /\ \E oi \in orderItems : oi.product = req'[r].product)
            => /\ req'[r].pc = "done"
               /\ req'[r].outcome = "MethodNotAllowed"
               /\ db' = db
       /\ \A p \in products :
            (\E oi \in orderItems : oi.product = p) => p \in products'
      ]_vars

C11_Witness ==
    \E r \in Reqs :
        /\ Done(r, "delete_product")
        /\ req[r].outcome = "MethodNotAllowed"
        /\ req[r].product \in products
        /\ \E oi \in orderItems : oi.product = req[r].product
        /\ \E i \in items : i.product = req[r].product

\* C12: a delete of a collection that has a product is answered with
\* MethodNotAllowed and changes nothing; while a collection has a product no
\* step removes it; a collection without products is removed by its delete.
C12_CollectionWithProductsKept ==
    [][/\ \A r \in Reqs :
            (/\ req[r].pc = "dc_count"
             /\ req'[r] # req[r]
             /\ ProductSet(req[r].collection) # {})
            => /\ req'[r].pc = "done"
               /\ req'[r].outcome = "MethodNotAllowed"
               /\ db' = db
       /\ \A k \in collections : ProductSet(k) # {} => k \in collections'
       /\ \A r \in Reqs :
            (/\ req[r].pc = "dc_destroy"
             /\ req'[r] # req[r]
             /\ req[r].collection \in collections
             /\ ProductSet(req[r].collection) = {})
            => /\ req'[r].outcome = "ok"
               /\ collections' = collections \ {req[r].collection}
               /\ products' = products
               /\ collection_of' = collection_of
      ]_vars

C12_Witness ==
    /\ \E r \in Reqs :
         /\ Done(r, "delete_collection")
         /\ req[r].outcome = "MethodNotAllowed"
         /\ req[r].collection \in collections
         /\ ProductSet(req[r].collection) # {}
    /\ \E r \in Reqs :
         /\ Done(r, "delete_collection")
         /\ req[r].outcome = "ok"
         /\ req[r].collection \notin collections

\* C13: a checkout by a user without a Customer fails with NotFound and
\* writes nothing.
C13_NoCustomerNotFound ==
    [][\A r \in Reqs :
          (/\ req[r].pc = "co_order"
           /\ req'[r] # req[r]
           /\ ~ \E c \in Customers : c.user_id = req[r].user)
          => /\ req'[r].pc = "done"
             /\ req'[r].outcome = "NotFound"
             /\ db' = db
      ]_vars

\* C14: an Order comes into being only by the order insert of a checkout,
\* one at a time, with payment status pending and as the order of the
\* Customer whose user called.
C14_OrderPendingAndOwned ==
    [][\A o \in orders' \ orders :
          /\ o.payment_status = "P"
          /\ orders' \ orders = {o}
          /\ \E r \in Reqs :
               /\ req[r].pc = "co_order"
               /\ req'[r].pc = "co_read"
               /\ req'[r].order = o.id
               /\ \E c \in Customers :
                    c.user_id = req[r].user /\ c.id = o.customer
      ]_vars

C14_Witness ==
    /\ \E o1, o2 \in orders : o1.customer # o2.customer
    /\ \A o \in orders : o.payment_status = "P"
    /\ \E r \in Reqs : Done(r, "checkout") /\ req[r].outcome = "ok"

\* C15: the cart view answers with the total price of the cart: the sum,
\* over the CartItems the cart has at the read, of quantity times the
\* product's unit price at the read; 0 for an empty cart.
C15_CartTotalAtRead ==
    [][\A c \in carts :
          (/\ response' # response
           /\ response'.op = "retrieve_cart"
           /\ response'.cart = c)
          => /\ response'.status = "ok"
             /\ response'.total_price = SumOfLines(ItemsOfCart(c))
      ]_vars

\* C16: an add to a cart id under which no cart was ever created ends with
\* NotFound (ValidationError when the product is refused first), and no
\* CartItem is stored for such a cart id.
C16_AddToMissingCartNotFound ==
    /\ \A r \in Reqs :
         (Done(r, "add") /\ req[r].cart \notin cartsEver)
         => req[r].outcome \in {"NotFound", "ValidationError"}
    /\ \A i \in items : i.cart \in cartsEver

\* C17: an add that names a product which does not exist ends at once with
\* ValidationError, and the database is as before.
C17_AddUnknownProductRejected ==
    [][\A r \in Reqs :
          (/\ Free(r)
           /\ req'[r] # req[r]
           /\ req'[r].op = "add"
           /\ req'[r].product \notin products)
          => /\ req'[r].pc = "done"
             /\ req'[r].outcome = "ValidationError"
             /\ db' = db
      ]_vars

C17_Witness ==
    \E r \in Reqs :
        /\ Done(r, "add")
        /\ req[r].outcome = "ValidationError"
        /\ req[r].product \notin products
        /\ req[r].cart \in carts
        /\ items # {}

\* C18: every CartItem and every OrderItem has a quantity of at least 1.
C18_QuantityAtLeastOne ==
    /\ \A i \in items : i.quantity >= 1
    /\ \A oi \in orderItems : oi.quantity >= 1

\* C19: a step of an add request leaves every cart, every product and every
\* CartItem of another (cart, product) pair as it was, changes at most one
\* row, and when the add succeeds the pair has exactly one row.
C19_AddTouchesOneRow ==
    [][\A r \in Reqs :
          (req[r].op = "add" /\ ~Free(r) /\ req'[r] # req[r])
          => LET c == req[r].cart
                 p == req[r].product IN
               /\ \A i \in items \ items' : i.cart = c /\ i.product = p
               /\ \A i \in items' \ items : i.cart = c /\ i.product = p
               /\ Cardinality(items \ items') <= 1
               /\ Cardinality(items' \ items) <= 1
               /\ <<carts, cartsEver, products, unit_price, orders,
                    orderItems>>' =
                  <<carts, cartsEver, products, unit_price, orders,
                    orderItems>>
               /\ (req'[r].pc = "done" /\ req'[r].outcome = "ok")
                  => Cardinality({i \in items' :
                                    i.cart = c /\ i.product = p}) = 1
      ]_vars

C19_Witness ==
    \E r \in Reqs :
        /\ Done(r, "add")
        /\ req[r].outcome = "ok"
        /\ \E i \in ItemsOfPair(req[r].cart, req[r].product) :
              i.quantity = MaxQuantity
        /\ \E i \in items : i.cart = req[r].cart /\ i.product # req[r].product

\* C20: an update or delete of a cart item touches no row but the one with
\* the item id among the items of the cart in the URL; the update keeps the
\* row's cart and product; an item id of another cart is answered with
\* NotFound and nothing changes.
C20_ItemAddressedThroughCart ==
    [][(/\ response'.op \in {"update_item", "delete_item"}
        /\ req' = req
        /\ carts' = carts
        /\ unit_price' = unit_price
        /\ (response' # response \/ items' # items))
       => LET c == response'.cart
              id == response'.item
              addressed == {i \in items : i.id = id /\ i.cart = c} IN
            /\ \A i \in items \ addressed : i \in items'
            /\ response'.op = "update_item" =>
                 /\ \A j \in items' \ items :
                      \E i \in addressed :
                         /\ j.id = i.id
                         /\ j.cart = i.cart
                         /\ j.product = i.product
                 /\ Cardinality(items') = Cardinality(items)
            /\ response'.op = "delete_item" => items' = items \ addressed
            /\ addressed = {} =>
                 response'.status = "NotFound" /\ items' = items
            /\ addressed # {} => response'.status = "ok"
            /\ <<collections, collection_of, cartsEver, nextItemId, products,
                 orders, nextOrderId, orderItems>>' =
               <<collections, collection_of, cartsEver, nextItemId, products,
                 orders, nextOrderId, orderItems>>
      ]_vars

C20_Witness ==
    /\ response.op = "update_item"
    /\ response.status = "NotFound"
    /\ response.cart \in carts
    /\ \E i \in items : i.id = response.item /\ i.cart # response.cart
    /\ \E i \in items : i.cart = response.cart

C22_CheckoutLeavesProducts ==
    [][\A r \in Reqs :
          (/\ req'[r] # req[r]
           /\ IF Free(r) THEN req'[r].op = "checkout"
                         ELSE req[r].op = "checkout")
          => /\ products' = products
             /\ unit_price' = unit_price
             /\ inventory' = inventory
      ]_vars

C22_Witness ==
    \E r \in Reqs :
        /\ Done(r, "checkout")
        /\ req[r].outcome = "ok"
        /\ \E oi \in ItemsOfOrder(req[r].order) :
              /\ oi.quantity = MaxQuantity
              /\ oi.product \in products
              /\ unit_price[oi.product] = MaxPrice
              /\ inventory[oi.product] = MaxInventory

\* C23: once a cart is gone, a checkout with its id ends at once with the
\* 'no cart' ValidationError and an add to it does not succeed; and a
\* checkout creates its Order only if no Order of another checkout of the
\* same cart exists.
C23_CartConvertedOnce ==
    [][\A r \in Reqs :
          /\ (/\ Free(r)
              /\ req'[r] # req[r]
              /\ req'[r].op = "checkout"
              /\ req'[r].cart \in cartsEver \ carts)
             => /\ req'[r].pc = "done"
                /\ req'[r].outcome = "ValidationError:no_cart"
          /\ (/\ Free(r)
              /\ req'[r] # req[r]
              /\ req'[r].op = "add"
              /\ req'[r].pc = "done"
              /\ req'[r].cart \in cartsEver \ carts)
             => req'[r].outcome # "ok"
          /\ (/\ InFlight(r, "add")
              /\ req'[r].pc = "done"
              /\ req[r].cart \in cartsEver \ carts)
             => req'[r].outcome # "ok"
          /\ (req[r].pc = "co_order" /\ req'[r].pc = "co_read")
             => \A r2 \in Reqs \ {r} :
                   ~ /\ req[r2].op = "checkout"
                     /\ req[r2].cart = req[r].cart
                     /\ \E o \in orders : o.id = req[r2].order
      ]_vars

\* C24: a step that changes an existing Order changes one Order, and of it
\* the payment status only, to pending, complete or failed; its id,
\* placed-at time and customer and all OrderItems stay as they were.
C24_OrderUpdateOnlyStatus ==
    [][\A o \in orders \ orders' :
          /\ \E n \in orders' \ orders :
               /\ n.id = o.id
               /\ n.placed_at = o.placed_at
               /\ n.customer = o.customer
               /\ n.payment_status \in {"P", "C", "F"}
          /\ orders \ orders' = {o}
          /\ Cardinality(orders') = Cardinality(orders)
          /\ orderItems' = orderItems
      ]_vars

C24_Witness ==
    \E o1, o2 \in orders :
        /\ o1.payment_status = "C"
        /\ o2.payment_status = "F"
        /\ o1.customer # o2.customer
        /\ ItemsOfOrder(o1.id) # {}
        /\ ItemsOfOrder(o2.id) # {}

\* C25: the save of an add that found a CartItem leaves the stored row with
\* the quantity it had just before the save plus the quantity added, so no
\* increment of a concurrent add is lost.
C25_NoLostIncrement ==
    [][\A r \in Reqs :
          (/\ req[r].pc = "add_save"
           /\ req'[r].pc = "done"
           /\ req'[r].outcome = "ok")
          => \A i \in items :
                i.id = req[r].item.id
                => \E j \in items' :
                      /\ j.id = i.id
                      /\ j.quantity = i.quantity + req[r].qty
      ]_vars

\* C26: every CartItem that the cart delete of a checkout removes has an
\* OrderItem of the checkout's Order with the same product and quantity.
C26_NoItemLostAtCheckout ==
    [][\A r \in Reqs :
          (req[r].pc = "co_delete" /\ req'[r].pc = "done")
          => \A i \in items \ items' :
                \E oi \in orderItems :
                   /\ oi.order = req[r].order
                   /\ oi.product = i.product
                   /\ oi.quantity = i.quantity
      ]_vars

\* C27: no OrderItem is without its product, and a product delete ends in
\* success, in the MethodNotAllowed rejection or, for a product that is
\* gone, in NotFound: never in a failure of a storage constraint.
C27_GuardedDeleteEndsCleanly ==
    /\ \A oi \in orderItems : oi.product \in products
    /\ \A r \in Reqs :
         Done(r, "delete_product")
         => req[r].outcome \in {"ok", "MethodNotAllowed", "NotFound"}

\* C28: the delete of a product that exists and that no OrderItem references
\* succeeds and removes the product and the CartItems of it, nothing else:
\* the carts stay; the delete of a product that does not exist ends in
\* NotFound with the database as it was, and is never answered with
\* MethodNotAllowed.
C28_UnreferencedProductDeleted ==
    [][\A r \in Reqs :
          /\ (/\ Free(r)
              /\ req'[r] # req[r]
              /\ req'[r].op = "delete_product"
              /\ req'[r].product \notin products)
             => req'[r].outcome # "MethodNotAllowed"
          /\ (/\ req[r].pc = "dp_destroy"
              /\ req'[r] # req[r]
              /\ req[r].product \notin products)
             => req'[r].outcome = "NotFound" /\ db' = db
          /\ (/\ req[r].pc = "dp_destroy"
              /\ req'[r] # req[r]
              /\ req[r].product \in products
              /\ ~ \E oi \in orderItems : oi.product = req[r].product)
             => /\ req'[r].outcome = "ok"
                /\ products' = products \ {req[r].product}
                /\ items' = {i \in items : i.product # req[r].product}
                /\ carts' = carts
                /\ <<cartsEver, unit_price, orders, orderItems>>' =
                   <<cartsEver, unit_price, orders, orderItems>>
      ]_vars

C28_Witness ==
    \E r \in Reqs :
        /\ Done(r, "delete_product")
        /\ req[r].outcome = "ok"
        /\ req[r].product \notin products
        /\ nextItemId > MaxItemId
        /\ Cardinality(items) = 1
        /\ \E c \in carts : ItemsOfCart(c) = {}
        /\ orders = {}

\* C29: a request with a safe method is granted whoever the user is; a
\* request with another method is granted exactly when it has a user and
\* that user is staff.
C29_AdminOrReadOnly ==
    perm.checked =>
        IF perm.method \in {"GET", "HEAD", "OPTIONS"}
           THEN perm.granted
           ELSE perm.granted <=> (~perm.user.none /\ perm.user.is_staff)

C29_Witness ==
    /\ perm.checked
    /\ perm.method = "DELETE"
    /\ ~perm.granted
    /\ perm.user.is_authenticated
    /\ perm.user.is_superuser
    /\ ~perm.user.is_staff

====
